---- MODULE Spec2Model ----
(***************************************************************************)
(* Model of joycaption/joy_caption_batch.py: JoyCaptionManager (lazy load, *)
(* locked unload, threading.Timer idle eviction) and process_images (the   *)
(* sequential item loop with per-item except and the finally cleanup).     *)
(*                                                                         *)
(* Threads: the foreground thread running process_images, and one thread   *)
(* per threading.Timer object created by reset_timer.  A Timer thread      *)
(* waits on its `finished` event for the interval; if the event is not set *)
(* when the wait ends it calls unload_model; Timer.cancel() only sets the  *)
(* event.  KeyboardInterrupt (a BaseException, not caught by `except       *)
(* Exception`) can be delivered to the foreground thread at any step.      *)
(***************************************************************************)
EXTENDS Integers, Sequences, FiniteSets, TLC

\* ------------------------------------------------------------------ bounds
\* most image files in the input directory
MaxFiles ==
    2

\* ------------------------------------------------------- directory entries
\* A directory entry: a name (stem, suffix) and whether it is a regular file.
\* Stems are equal-length names, so the order of full names is the order of
\* (stem, suffix) pairs.
Entry(s, x, f) ==
    [stem |-> s, suffix |-> x, isFile |-> f]

Stems ==
    {1, 2}

\* Candidate image files: two that differ only in suffix (one upper-case),
\* and one with another stem.
ImagePool ==
    { Entry(1, ".PNG", TRUE), Entry(1, ".jpg", TRUE), Entry(2, ".jpg", TRUE) }

\* Entries that are in every input directory: a file that is not an image
\* and a sub-directory whose name looks like an image.
OtherEntries ==
    { Entry(2, ".txt", TRUE), Entry(3, ".jpg", FALSE) }

\* str.lower() on the suffixes of the pool
Lower(x) ==
    IF x = ".PNG" THEN ".png" ELSE x

supported_formats ==
    {".jpg", ".jpeg", ".png", ".bmp", ".gif", ".tiff", ".webp"}

\* Position of a suffix in code-point order ('P' < 'j' < 't').
SuffixRank(x) ==
    IF x = ".PNG" THEN 1 ELSE IF x = ".jpg" THEN 2 ELSE 3

\* Path.__lt__ on two entries of the same directory
PathLess(a, b) ==
    \/ a.stem < b.stem
    \/ a.stem = b.stem /\ SuffixRank(a.suffix) < SuffixRank(b.suffix)

RECURSIVE SortedSeq(_)
\* sorted(S): repeatedly take the least remaining path
SortedSeq(S) ==
    IF S = {} THEN << >>
    ELSE LET m == CHOOSE a \in S : \A b \in S \ {a} : PathLess(a, b)
         IN  <<m>> \o SortedSeq(S \ {m})

\* get_image_files without ascending order (the sorted() result reversed)
get_image_files_unsorted(dir) ==
    LET q == SortedSeq({ e \in dir :
                          e.isFile /\ Lower(e.suffix) \in supported_formats })
    IN  [k \in 1..Len(q) |-> q[Len(q) + 1 - k]]

get_image_files(dir) ==
    SortedSeq({ e \in dir :
                 e.isFile /\ Lower(e.suffix) \in supported_formats })

\* ------------------------------------------------------------------- state
VARIABLES
    input_exists,     \* input_path.exists()
    directory,        \* entries directly under input_path
    skip_existing,    \* argument
    trigger_word,     \* argument: "" stands for None / empty (falsy)
    files,            \* output_path: stem -> [exists, content]
    image_files,      \* local of process_images
    pc,               \* position of the foreground thread
    i,                \* loop index (1-based, 0 before the first item)
    caption,          \* local: text of the current item
    processed_count,
    skipped_count,
    error_count,
    model,            \* caption_manager.model:     "None" or "obj"
    processor,        \* caption_manager.processor: "None" or "obj"
    lock,             \* caption_manager.lock: Free, FG or a timer id
    timer,            \* caption_manager.timer: 0 (None) or a timer id
    timers,           \* the Timer objects created so far: their thread's
                      \* position st and their `finished` event
    exit,             \* how process_images ended: "running"/"returned"/"raised"
    hist              \* history of the run (observations only)

vars ==
    <<input_exists, directory, skip_existing, trigger_word, files, image_files,
      pc, i, caption, processed_count, skipped_count, error_count,
      model, processor, lock, timer, timers, exit, hist>>

env ==
    <<input_exists, directory, skip_existing, trigger_word>>

counters ==
    <<processed_count, skipped_count, error_count>>

manager ==
    <<model, processor, lock, timer, timers>>

Free ==
    -1

FG ==
    0

NoFile ==
    [exists |-> FALSE, content |-> << >>]

OldFile ==
    [exists |-> TRUE, content |-> <<"old">>]

\* texts the opaque model may return (after .strip())
Captions ==
    {"a cat."}

n ==
    Len(image_files)

\* caption_file = output_path / f"{image_file.stem}.txt"
caption_file(k) ==
    image_files[k].stem

TimerIds ==
    1..Len(timers)

\* A firing is pending: started, not cancelled, deadline not yet reached.
Pending(t) ==
    timers[t].st = "waiting"

InitHist ==
    [ \* about the item being processed
      outcome    |-> "none",  \* "none"/"Success"/"Skipped"/"Error"
      raised     |-> FALSE,   \* its processing raised an Exception
      loadRaised |-> FALSE,   \* ... inside load_model
      genCall    |-> FALSE,   \* generate_caption was called with it
      loadCall   |-> FALSE,   \* load_model was entered for it
      built      |-> FALSE,   \* model construction was started for it
      resets     |-> 0,       \* reset_timer calls made for it
      writeRaised |-> FALSE,  \* ... raised while writing its caption file
      evictedInCall |-> FALSE,\* a timer thread unloaded the model after its
                              \* load_model returned, before inference ended
      \* about the run
      nSuccess   |-> 0,       \* items that ended as Success
      nSkipped   |-> 0,       \* items that ended as Skipped
      nError     |-> 0,       \* items that ended as Error
      raisedCount |-> 0,      \* items whose processing raised an Exception
      interrupted |-> FALSE,  \* KeyboardInterrupt escaped the item loop
      finallyRuns |-> 0,      \* times the finally block was entered
      unloadCalls |-> 0,      \* unload_model calls made by the finally block
      cancelRuns  |-> 0,      \* times the cancel step of the finally block ran
      cleanupRaised |-> FALSE,\* an exception escaped the finally block
      lastLoadFailed |-> FALSE, \* the latest load_model call raised
      idleExpired |-> FALSE,  \* the current timer ran out between two
                              \* generate_caption calls, model loaded
      evictsSince |-> 0,      \* loaded -> unloaded transitions since then
      fresh      |-> FALSE,   \* no caption file existed when the run began
      raw        |-> << >>,   \* text returned by the latest generate_caption
      \* per caption file: its state when an item naming it was recorded
      \* Skipped, or Error without having reached the write
      frozen     |-> [s \in Stems |-> [set |-> FALSE, file |-> NoFile]] ]

\* the loop moves to the next item
NewItem(h) ==
    [h EXCEPT !.outcome = "none", !.raised = FALSE, !.loadRaised = FALSE,
              !.genCall = FALSE, !.loadCall = FALSE, !.built = FALSE,
              !.resets = 0, !.writeRaised = FALSE, !.evictedInCall = FALSE]

\* the current item is recorded without a write attempt: note its file
Freeze(h) ==
    [h EXCEPT !.frozen[caption_file(i)] =
                  [set |-> TRUE, file |-> files[caption_file(i)]]]

Init ==
    /\ input_exists \in BOOLEAN
    /\ directory \in { imgs \cup OtherEntries :
                          imgs \in { d \in SUBSET ImagePool :
                                       Cardinality(d) <= MaxFiles } }
    /\ (~input_exists => directory = OtherEntries)
    /\ skip_existing \in BOOLEAN
    /\ trigger_word \in {"", "sks"}
    /\ files \in [Stems -> {NoFile, OldFile}]
    /\ image_files = << >>
    /\ pc = "start"
    /\ i = 0
    /\ caption = << >>
    /\ processed_count = 0
    /\ skipped_count = 0
    /\ error_count = 0
    /\ model = "None"
    /\ processor = "None"
    /\ lock = Free
    /\ timer = 0
    /\ timers = << >>
    /\ exit = "running"
    /\ hist = [InitHist EXCEPT !.fresh = \A s \in Stems : ~files[s].exists]

\* ------------------------------------------------- foreground: setup, loop
\* process_images up to the try statement: validate the input directory,
\* enumerate the images, construct the manager, zero the counters.
Start ==
    /\ pc = "start"
    /\ IF ~input_exists
       THEN /\ pc' = "done"
            /\ exit' = "returned"
            /\ UNCHANGED <<image_files, hist>>
       ELSE /\ image_files' = get_image_files(directory)
            /\ IF image_files' = << >>
               THEN /\ pc' = "done"
                    /\ exit' = "returned"
                    /\ UNCHANGED hist
               ELSE /\ pc' = "for"
                    /\ exit' = exit
                    /\ hist' = hist
    /\ UNCHANGED <<env, files, i, caption, counters, manager>>

\* for i, image_file in enumerate(image_files, 1): next item, or leave the
\* loop normally and enter the finally block.
For ==
    /\ pc = "for"
    /\ IF i < n
       THEN /\ i' = i + 1
            /\ pc' = "check"
            /\ hist' = NewItem(hist)
       ELSE /\ i' = i
            /\ pc' = "fin_lock"
            /\ hist' = [hist EXCEPT !.finallyRuns = @ + 1]
    /\ UNCHANGED <<env, files, image_files, caption, counters, manager, exit>>

\* the skip branch without its counter increment
CheckSkipNoCount ==
    /\ pc = "check"
    /\ IF skip_existing /\ files[caption_file(i)].exists
       THEN /\ hist' = [Freeze(hist) EXCEPT !.outcome = "Skipped",
                                             !.nSkipped = @ + 1]
            /\ pc' = "for"
       ELSE /\ hist' = hist
            /\ pc' = "open"
    /\ UNCHANGED <<env, files, image_files, i, caption, counters, manager, exit>>

\* the skip branch without its `continue`
CheckNoContinue ==
    /\ pc = "check"
    /\ IF skip_existing /\ files[caption_file(i)].exists
       THEN /\ skipped_count' = skipped_count + 1
            /\ hist' = [Freeze(hist) EXCEPT !.outcome = "Skipped",
                                             !.nSkipped = @ + 1]
       ELSE /\ skipped_count' = skipped_count
            /\ hist' = hist
    /\ pc' = "open"
    /\ UNCHANGED <<env, files, image_files, i, caption, processed_count,
                   error_count, manager, exit>>

\* skip policy: the caption file exists and skip_existing is set
Check ==
    /\ pc = "check"
    /\ IF skip_existing /\ files[caption_file(i)].exists
       THEN /\ skipped_count' = skipped_count + 1
            /\ hist' = [Freeze(hist) EXCEPT !.outcome = "Skipped",
                                             !.nSkipped = @ + 1]
            /\ pc' = "for"
       ELSE /\ skipped_count' = skipped_count
            /\ hist' = hist
            /\ pc' = "open"
    /\ UNCHANGED <<env, files, image_files, i, caption, processed_count,
                   error_count, manager, exit>>

\* An Exception raised in the item body: control goes to the except clause.
Raised(h) ==
    [h EXCEPT !.raised = TRUE, !.raisedCount = @ + 1]

\* An Exception raised inside load_model.
RaisedInLoad(h) ==
    [Raised(h) EXCEPT !.loadRaised = TRUE, !.lastLoadFailed = TRUE]

\* with Image.open(image_file) as img: caption_manager.generate_caption(...)
\* (the call enters load_model first)
Open ==
    /\ pc = "open"
    /\ \/ /\ pc' = "load_lock"
          /\ hist' = [hist EXCEPT !.genCall = TRUE, !.loadCall = TRUE]
       \/ /\ pc' = "except"
          /\ hist' = Raised(hist)
    /\ UNCHANGED <<env, files, image_files, i, caption, counters, manager, exit>>

\* ------------------------------------------------------------- load_model
\* load_model without the `if self.model is None` test
LoadEnterNoCheck ==
    /\ pc = "load_lock"
    /\ lock = Free
    /\ lock' = FG
    /\ pc' = "load_proc"
    /\ hist' = [hist EXCEPT !.built = TRUE]
    /\ UNCHANGED <<env, files, image_files, i, caption, counters,
                   model, processor, timer, timers, exit>>

\* with self.lock: if self.model is None: ... (a present handle returns
\* at once, releasing the lock)
LoadEnter ==
    /\ pc = "load_lock"
    /\ lock = Free
    /\ IF model = "None"
       THEN /\ lock' = FG
            /\ pc' = "load_proc"
            /\ hist' = [hist EXCEPT !.built = TRUE]
       ELSE /\ lock' = Free
            /\ pc' = "reset"
            /\ hist' = [hist EXCEPT !.lastLoadFailed = FALSE]
    /\ UNCHANGED <<env, files, image_files, i, caption, counters,
                   model, processor, timer, timers, exit>>

\* self.processor = AutoProcessor.from_pretrained(...)
LoadProcessor ==
    /\ pc = "load_proc"
    /\ \/ /\ processor' = "obj"
          /\ pc' = "load_model"
          /\ UNCHANGED <<lock, hist>>
       \/ /\ processor' = processor
          /\ lock' = Free
          /\ pc' = "except"
          /\ hist' = RaisedInLoad(hist)
    /\ UNCHANGED <<env, files, image_files, i, caption, counters,
                   model, timer, timers, exit>>

\* self.model = LlavaForConditionalGeneration.from_pretrained(...)
LoadModel ==
    /\ pc = "load_model"
    /\ \/ /\ model' = "obj"
          /\ pc' = "pad_fix"
          /\ UNCHANGED <<lock, hist>>
       \/ /\ model' = model
          /\ lock' = Free
          /\ pc' = "except"
          /\ hist' = RaisedInLoad(hist)
    /\ UNCHANGED <<env, files, image_files, i, caption, counters,
                   processor, timer, timers, exit>>

\* tok = self.processor.tokenizer; pad_token fix-up; leave the with block
PadFix ==
    /\ pc = "pad_fix"
    /\ lock' = Free
    /\ \/ /\ pc' = "reset"
          /\ hist' = [hist EXCEPT !.lastLoadFailed = FALSE]
       \/ /\ pc' = "except"
          /\ hist' = RaisedInLoad(hist)
    /\ UNCHANGED <<env, files, image_files, i, caption, counters,
                   model, processor, timer, timers, exit>>

\* ------------------------------------------------------------ reset_timer
\* a cancel that does not wake up the waiting thread
CancelNoWake(ts, t) ==
    [ts EXCEPT ![t] = [st |-> @.st, finished |-> TRUE]]

\* Timer.cancel(): sets the finished event.  A thread still waiting wakes
\* up, sees the event set and ends; a thread past its is_set() test is not
\* affected.
Cancel(ts, t) ==
    [ts EXCEPT ![t] = [st |-> IF @.st = "waiting" THEN "done" ELSE @.st,
                       finished |-> TRUE]]

\* reset_timer without the cancel of the previous timer
ResetTimerNoCancel ==
    /\ pc = "reset"
    /\ timers' = Append(timers, [st |-> "waiting", finished |-> FALSE])
    /\ timer' = Len(timers) + 1
    /\ pc' = "gen"
    /\ hist' = [hist EXCEPT !.resets = @ + 1]
    /\ UNCHANGED <<env, files, image_files, i, caption, counters,
                   model, processor, lock, exit>>

\* if self.timer: self.timer.cancel(); self.timer = Timer(...); start()
ResetTimer ==
    /\ pc = "reset"
    /\ timers' = Append(IF timer # 0 THEN Cancel(timers, timer) ELSE timers,
                        [st |-> "waiting", finished |-> FALSE])
    /\ timer' = Len(timers) + 1
    /\ pc' = "gen"
    /\ hist' = [hist EXCEPT !.resets = @ + 1]
    /\ UNCHANGED <<env, files, image_files, i, caption, counters,
                   model, processor, lock, exit>>

\* ------------------------------------------- generate_caption: inference
\* apply_chat_template, self.processor(...), self.model.generate(...): reads
\* self.processor and self.model without the lock; None raises.
Generate ==
    /\ pc = "gen"
    /\ \/ /\ model # "None" /\ processor # "None"
          /\ pc' = "decode"
          /\ hist' = [hist EXCEPT !.idleExpired = FALSE, !.evictsSince = 0]
       \/ /\ pc' = "except"
          /\ hist' = [Raised(hist) EXCEPT !.idleExpired = FALSE,
                                         !.evictsSince = 0]
    /\ UNCHANGED <<env, files, image_files, i, caption, counters, manager, exit>>

\* decoding that does not read self.processor
DecodeUnchecked ==
    /\ pc = "decode"
    /\ \E raw \in Captions :
          /\ caption' = <<raw>>
          /\ hist' = [hist EXCEPT !.raw = <<raw>>]
    /\ pc' = "write"
    /\ UNCHANGED <<env, files, image_files, i, counters, manager, exit>>

\* caption = self.processor.decode(...).strip(); return caption
Decode ==
    /\ pc = "decode"
    /\ \/ /\ processor # "None"
          /\ \E raw \in Captions :
                /\ caption' = <<raw>>
                /\ hist' = [hist EXCEPT !.raw = <<raw>>]
          /\ pc' = "write"
       \/ /\ caption' = caption
          /\ pc' = "except"
          /\ hist' = Raised(hist)
    /\ UNCHANGED <<env, files, image_files, i, counters, manager, exit>>

\* the trigger word prepended without the separator
WithTriggerNoSeparator(w, c) ==
    IF w # "" THEN <<w>> \o c ELSE c

\* f"{trigger_word}, {caption}"
WithTrigger(w, c) ==
    IF w # "" THEN <<w, ", ">> \o c ELSE c

\* trigger word, open(caption_file, 'w'), f.write(caption).  open can fail
\* (file untouched); write can fail after open truncated the file.
Write ==
    /\ pc = "write"
    /\ caption' = WithTrigger(trigger_word, caption)
    /\ \/ /\ files' = [files EXCEPT ![caption_file(i)] =
                          [exists |-> TRUE, content |-> caption']]
          /\ pc' = "count"
          /\ hist' = hist
       \/ /\ files' = files
          /\ pc' = "except"
          /\ hist' = [Raised(hist) EXCEPT !.writeRaised = TRUE]
       \/ /\ files' = [files EXCEPT ![caption_file(i)] =
                          [exists |-> TRUE, content |-> << >>]]
          /\ pc' = "except"
          /\ hist' = [Raised(hist) EXCEPT !.writeRaised = TRUE]
    /\ UNCHANGED <<env, image_files, i, counters, manager, exit>>

\* processed_count += 1
Count ==
    /\ pc = "count"
    /\ processed_count' = processed_count + 1
    /\ hist' = [hist EXCEPT !.outcome = "Success", !.nSuccess = @ + 1]
    /\ pc' = "for"
    /\ UNCHANGED <<env, files, image_files, i, caption, skipped_count,
                   error_count, manager, exit>>

\* the except clause without its counter increment
ExceptNoCount ==
    /\ pc = "except"
    /\ hist' = [(IF hist.writeRaised THEN hist ELSE Freeze(hist))
                    EXCEPT !.outcome = "Error", !.nError = @ + 1]
    /\ pc' = "for"
    /\ UNCHANGED <<env, files, image_files, i, caption, counters, manager, exit>>

\* except Exception as e: error_count += 1; continue
Except ==
    /\ pc = "except"
    /\ error_count' = error_count + 1
    /\ hist' = [(IF hist.writeRaised THEN hist ELSE Freeze(hist))
                    EXCEPT !.outcome = "Error", !.nError = @ + 1]
    /\ pc' = "for"
    /\ UNCHANGED <<env, files, image_files, i, caption, processed_count,
                   skipped_count, manager, exit>>

\* ---------------------------------------------------------- finally block
\* caption_manager.unload_model(): with self.lock: if self.model is not None
FinAcquire ==
    /\ pc = "fin_lock"
    /\ lock = Free
    /\ hist' = [hist EXCEPT !.unloadCalls = @ + 1]
    /\ IF model # "None"
       THEN /\ lock' = FG
            /\ pc' = "fin_unload"
       ELSE /\ lock' = Free
            /\ pc' = "fin_cancel"
    /\ UNCHANGED <<env, files, image_files, i, caption, counters,
                   model, processor, timer, timers, exit>>

\* del self.model; del self.processor; self.model = None; self.processor = None
FinUnload ==
    /\ pc = "fin_unload"
    /\ model' = "None"
    /\ processor' = "None"
    /\ pc' = "fin_clear"
    /\ hist' = [hist EXCEPT !.evictsSince =
                                IF hist.idleExpired THEN @ + 1 ELSE @]
    /\ UNCHANGED <<env, files, image_files, i, caption, counters,
                   lock, timer, timers, exit>>

\* torch.cuda.empty_cache() / torch.mps.empty_cache(); gc.collect(); leave
\* the with block.  An exception here leaves the finally block at once.
FinClear ==
    /\ pc = "fin_clear"
    /\ lock' = Free
    /\ \/ /\ pc' = "fin_cancel"
          /\ UNCHANGED <<exit, hist>>
       \/ /\ pc' = "done"
          /\ exit' = "raised"
          /\ hist' = [hist EXCEPT !.cleanupRaised = TRUE]
    /\ UNCHANGED <<env, files, image_files, i, caption, counters,
                   model, processor, timer, timers>>

\* if caption_manager.timer: caption_manager.timer.cancel(); then the
\* summary is logged and process_images returns, or the interruption that
\* ended the loop is re-raised at the end of the finally block.
FinCancel ==
    /\ pc = "fin_cancel"
    /\ timers' = IF timer # 0 THEN Cancel(timers, timer) ELSE timers
    /\ hist' = [hist EXCEPT !.cancelRuns = @ + 1]
    /\ pc' = "done"
    /\ exit' = IF hist.interrupted THEN "raised" ELSE "returned"
    /\ UNCHANGED <<env, files, image_files, i, caption, counters,
                   model, processor, lock, timer>>

\* ------------------------------------------------------ KeyboardInterrupt
TryPcs ==
    {"for", "check", "open", "load_lock", "load_proc", "load_model",
     "pad_fix", "reset", "gen", "decode", "write", "count", "except"}

FinallyPcs ==
    {"fin_lock", "fin_unload", "fin_clear", "fin_cancel"}

\* an interruption of the loop that bypasses the finally block
InterruptLoopNoFinally ==
    /\ pc \in TryPcs
    /\ lock' = IF lock = FG THEN Free ELSE lock
    /\ pc' = "done"
    /\ exit' = "raised"
    /\ hist' = [hist EXCEPT !.interrupted = TRUE]
    /\ UNCHANGED <<env, files, image_files, i, caption, counters,
                   model, processor, timer, timers>>

\* A KeyboardInterrupt inside the try statement: not an Exception, so the
\* per-item handler does not catch it; a held lock is released by the with
\* statement and the finally block runs.
InterruptLoop ==
    /\ pc \in TryPcs
    /\ lock' = IF lock = FG THEN Free ELSE lock
    /\ pc' = "fin_lock"
    /\ hist' = [hist EXCEPT !.interrupted = TRUE, !.finallyRuns = @ + 1]
    /\ UNCHANGED <<env, files, image_files, i, caption, counters,
                   model, processor, timer, timers, exit>>

\* A KeyboardInterrupt inside the finally block: the rest of it is skipped.
InterruptFinally ==
    /\ pc \in FinallyPcs
    /\ lock' = IF lock = FG THEN Free ELSE lock
    /\ pc' = "done"
    /\ exit' = "raised"
    /\ hist' = [hist EXCEPT !.cleanupRaised = TRUE]
    /\ UNCHANGED <<env, files, image_files, i, caption, counters,
                   model, processor, timer, timers>>

\* ---------------------------------------------------------- Timer threads
\* positions of the foreground thread in the item loop outside
\* generate_caption
BetweenCalls ==
    {"for", "check", "open", "write", "count", "except"}

\* positions inside generate_caption after load_model has returned
InCall ==
    {"reset", "gen", "decode"}

\* Timer.run ends with self.finished.set(), whether or not it called the
\* function.
TimerEnded ==
    [st |-> "done", finished |-> TRUE]

\* Timer.run: self.finished.wait(interval) ends by timeout and
\* `if not self.finished.is_set()` is passed: the thread is committed to
\* calling self.function, i.e. unload_model.
TimerExpire(t) ==
    /\ timers[t].st = "waiting"
    /\ timers' = [timers EXCEPT ![t].st = "fire"]
    /\ hist' = IF t = timer /\ model # "None" /\ pc \in BetweenCalls
               THEN [hist EXCEPT !.idleExpired = TRUE, !.evictsSince = 0]
               ELSE hist
    /\ UNCHANGED <<env, files, image_files, pc, i, caption, counters,
                   model, processor, lock, timer, exit>>

\* unload_model in the timer thread: with self.lock: if self.model is not None
TimerAcquire(t) ==
    /\ timers[t].st = "fire"
    /\ lock = Free
    /\ IF model # "None"
       THEN /\ lock' = t
            /\ timers' = [timers EXCEPT ![t].st = "locked"]
       ELSE /\ lock' = Free
            /\ timers' = [timers EXCEPT ![t] = TimerEnded]
    /\ UNCHANGED <<env, files, image_files, pc, i, caption, counters,
                   model, processor, timer, exit, hist>>

\* an unload in the timer thread that ends without releasing the lock
TimerUnloadKeepsLock(t) ==
    /\ timers[t].st = "locked"
    /\ model' = "None"
    /\ processor' = "None"
    /\ lock' = lock
    /\ timers' = [timers EXCEPT ![t] = TimerEnded]
    /\ hist' = [hist EXCEPT !.evictsSince =
                                IF hist.idleExpired THEN @ + 1 ELSE @,
                            !.evictedInCall = @ \/ pc \in InCall]
    /\ UNCHANGED <<env, files, image_files, pc, i, caption, counters,
                   timer, exit>>

\* del / = None, cache clearing, gc.collect(), leave the with block; the
\* thread ends (an exception while clearing ends it the same way).
TimerUnload(t) ==
    /\ timers[t].st = "locked"
    /\ model' = "None"
    /\ processor' = "None"
    /\ lock' = Free
    /\ timers' = [timers EXCEPT ![t] = TimerEnded]
    /\ hist' = [hist EXCEPT !.evictsSince =
                                IF hist.idleExpired THEN @ + 1 ELSE @,
                            !.evictedInCall = @ \/ pc \in InCall]
    /\ UNCHANGED <<env, files, image_files, pc, i, caption, counters,
                   timer, exit>>

\* ----------------------------------------------------------- specification
Foreground ==
    \/ Start \/ For \/ Check \/ Open
    \/ LoadEnter \/ LoadProcessor \/ LoadModel \/ PadFix
    \/ ResetTimer \/ Generate \/ Decode \/ Write \/ Count \/ Except
    \/ FinAcquire \/ FinUnload \/ FinClear \/ FinCancel

TimerThread ==
    \E t \in TimerIds : TimerExpire(t) \/ TimerAcquire(t) \/ TimerUnload(t)

Next ==
    \/ Foreground
    \/ InterruptLoop
    \/ InterruptFinally
    \/ TimerThread

Spec ==
    Init /\ [][Next]_vars

\* unload_model as run by the thread of timer t, once its wait is over
TimerRun(t) ==
    /\ t \in TimerIds
    /\ (TimerAcquire(t) \/ TimerUnload(t))

\* Scheduling: the foreground thread keeps running while it can take a step
\* (every library call returns or raises), and a Timer thread that is
\* calling unload_model is not starved.  When a Timer's wait ends, and
\* whether a KeyboardInterrupt arrives, is left open.
FairSpec ==
    /\ Spec
    /\ WF_vars(Foreground)
    /\ \A t \in 1..MaxFiles : WF_vars(TimerRun(t))

TypeOK ==
    /\ pc \in {"start", "done"} \cup TryPcs \cup FinallyPcs
    /\ model \in {"None", "obj"}
    /\ processor \in {"None", "obj"}
    /\ lock \in {Free, FG} \cup TimerIds
    /\ timer \in 0..Len(timers)
    /\ i \in 0..n

\* ------------------------------------------------------------ observations
AfterLoop ==
    pc \in FinallyPcs \cup {"done"} /\ image_files # << >>

\* the item loop was left by exhausting image_files
LoopCompleted ==
    AfterLoop /\ ~hist.interrupted

Items ==
    1..n

\* positions inside the body of the current item
BodyPcs ==
    TryPcs \ {"for"}

\* model objects that are referenced by the manager or being constructed
Handles ==
    (IF model # "None" THEN 1 ELSE 0)
        + (IF pc \in {"load_proc", "load_model"} THEN 1 ELSE 0)

\* ------------------------------------------------------------------ claims

\* C1: in every interleaving of the foreground load_model calls and the timer
\* threads' unload_model calls there is at most one model handle, live or
\* under construction; construction runs only with the lock held and starts
\* only from the absent state, a caller finding the handle present returns
\* without constructing, and model changes between present and absent only
\* in a step of the thread that holds the lock.
C1_SingleHandleUnderLock ==
    /\ [](/\ Handles <= 1
          /\ (pc \in {"load_proc", "load_model", "pad_fix"} => lock = FG)
          /\ (pc \in {"load_proc", "load_model"} => model = "None"))
    /\ [][ /\ (pc = "load_lock" /\ pc' = "load_proc" => model = "None")
           /\ (pc = "load_lock" /\ model # "None" /\ pc' \notin {"load_lock", "fin_lock"}
                 => pc' = "reset" /\ model' = model /\ ~hist'.built)
           /\ (model' # model =>
                 \/ lock = FG /\ pc' # pc
                 \/ lock \in TimerIds /\ timers'[lock] # timers[lock]) ]_vars

\* C1 witness: the timer thread of the first item evicted the model, and the
\* foreground thread has built it again, under the lock, for the second item.
C1_Witness ==
    /\ pc = "pad_fix"
    /\ i = 2
    /\ lock = FG
    /\ model = "obj"
    /\ timer = 1
    /\ timers[1] = TimerEnded

\* C2 (as claimed): once process_images has exited, by whatever path, the
\* model handle is absent and no timer is pending.
C2_CleanAfterExit ==
    (pc = "done" /\ image_files # << >>)
        => model = "None" /\ \A t \in TimerIds : ~Pending(t)

\* C3: every Exception raised while processing an item is counted as exactly
\* one error of that item and stays inside process_images; the loop goes on
\* to every later item, and the final error count is the number of items
\* whose processing raised.
C3_ErrorsIsolated ==
    /\ error_count = hist.nError
    /\ (pc = "for" /\ i > 0 => (hist.raised <=> hist.outcome = "Error"))
    /\ (pc = "except" => hist.raised /\ hist.outcome = "none")
    /\ (hist.raised /\ ~hist.interrupted => pc \in {"except", "for"} \/ AfterLoop)
    /\ hist.raisedCount = error_count + (IF hist.raised /\ hist.outcome = "none"
                                          THEN 1 ELSE 0)
    /\ (LoopCompleted => i = n /\ error_count = hist.raisedCount)
    /\ (exit = "raised" => hist.interrupted \/ hist.cleanupRaised)

\* C3 witness: the first item raised, a later item succeeded, and
\* process_images returned normally.
C3_Witness ==
    /\ pc = "done"
    /\ exit = "returned"
    /\ hist.raisedCount = 1
    /\ error_count = 1
    /\ hist.outcome = "Success"
    /\ i = n

\* C4: when the item loop has run to its end, processed + skipped + errors
\* equals the number of discovered files, every item having incremented
\* exactly one counter (so before that the sum is the number of items done).
C4_CountersSum ==
    /\ processed_count = hist.nSuccess
    /\ skipped_count = hist.nSkipped
    /\ error_count = hist.nError
    /\ (~hist.interrupted /\ pc # "start" /\ image_files # << >> =>
          processed_count + skipped_count + error_count
             = IF pc = "for" \/ AfterLoop THEN i ELSE i - 1)
    /\ (LoopCompleted =>
          processed_count + skipped_count + error_count = n)

\* C4 witness: a finished run of two items that incremented two different
\* counters.
C4_Witness ==
    /\ pc = "done"
    /\ ~hist.interrupted
    /\ n = 2
    /\ processed_count <= 1
    /\ skipped_count <= 1
    /\ error_count <= 1

\* C5: an item whose caption file exists when it is visited, with
\* skip_existing set, is recorded Skipped, and nothing of the manager is
\* touched for it: no generate_caption call, no load_model, no reset_timer.
C5_SkipTouchesNothing ==
    /\ [](hist.outcome = "Skipped"
            => ~hist.genCall /\ ~hist.loadCall /\ ~hist.built /\ hist.resets = 0)
    /\ [][ (/\ pc = "check"
            /\ skip_existing /\ files[caption_file(i)].exists
            /\ pc' # pc
            /\ ~hist'.interrupted)
           => /\ hist'.outcome = "Skipped"
              /\ pc' = "for"
              /\ UNCHANGED <<model, processor, lock, timer, timers, files>> ]_vars

\* C5 witness: an item was skipped in a run that had called
\* generate_caption for an earlier item, whose timer is still pending.
C5_Witness ==
    /\ pc = "for"
    /\ hist.outcome = "Skipped"
    /\ model = "obj"
    /\ timer # 0
    /\ Pending(timer)

\* C6 (as claimed): when load_model raises, model and processor are both
\* absent, and the next load_model call starts construction again.
C6_FailedLoadLeavesAbsent ==
    /\ []((pc = "except" /\ hist.loadRaised)
            => model = "None" /\ processor = "None")
    /\ [][ (pc = "load_lock" /\ hist.lastLoadFailed
              /\ pc' \in {"load_proc", "reset"})
           => pc' = "load_proc" ]_vars

\* C7 (as claimed): only the firing scheduled last, and not cancelled, ever
\* executes the eviction.
C7_OnlyLatestFiringEvicts ==
    [][ \A t \in TimerIds :
           (timers[t].st = "locked" /\ timers'[t].st = "done")
              => t = timer /\ ~timers[t].finished ]_vars

\* C8 (as claimed): when the timer runs out between two generate_caption
\* calls with the model loaded, the model is unloaded exactly once and the
\* next generate_caption call has rebuilt it when its inference starts.
C8_IdleEvictsOnceThenReload ==
    (pc = "gen" /\ hist.idleExpired)
        => hist.evictsSince = 1 /\ hist.built

\* C9: a run that entered the item loop runs the finally block exactly once,
\* however the loop ended; unless the cleanup itself raised, that one run
\* called unload_model once and reached the timer cancellation once.
C9_ShutdownOnce ==
    /\ hist.finallyRuns <= 1
    /\ hist.unloadCalls <= 1
    /\ hist.cancelRuns <= 1
    /\ (pc \in TryPcs => hist.finallyRuns = 0)
    /\ (AfterLoop => hist.finallyRuns = 1)
    /\ (pc = "done" /\ image_files # << >> /\ ~hist.cleanupRaised
          => hist.unloadCalls = 1 /\ hist.cancelRuns = 1)

\* C9 witness: the loop was interrupted and the cleanup ran once, to its end.
C9_Witness ==
    /\ pc = "done"
    /\ hist.interrupted
    /\ i < n
    /\ hist.finallyRuns = 1
    /\ hist.cancelRuns = 1

\* C10: image_files is in strictly ascending path order, the loop index
\* advances one item at a time, and it advances only when the current item
\* has its outcome; while any step of an item runs, all earlier items and
\* no other have their outcome.
C10_SequentialInOrder ==
    /\ [](/\ \A a, b \in Items : a < b => PathLess(image_files[a], image_files[b])
          /\ (pc \in BodyPcs =>
                /\ hist.outcome = "none"
                /\ hist.nSuccess + hist.nSkipped + hist.nError = i - 1))
    /\ [][ i' # i => /\ i' = i + 1
                     /\ pc = "for"
                     /\ (i > 0 => hist.outcome # "none") ]_vars

\* C10 witness: the second of two files that differ only in suffix is being
\* processed after the first got its outcome.
C10_Witness ==
    /\ i = 2
    /\ pc = "gen"
    /\ image_files[1].stem = image_files[2].stem
    /\ hist.nSuccess = 1

\* C11 (as claimed): at every point where the item loop can be left, an
\* interruption in the middle of an item included, processed + skipped +
\* errors equals the number of discovered files.
C11_PartialRunsSum ==
    AfterLoop => processed_count + skipped_count + error_count = n

\* C11 (amended): once the item loop has been left, processed + skipped +
\* errors is the number of items that got their outcome: every visited item
\* except one interrupted before its increment; it never exceeds the number
\* of discovered files and equals it when the loop was exhausted.
C11_SumIsItemsDone ==
    AfterLoop =>
        /\ processed_count + skipped_count + error_count
              = IF i = 0 THEN 0
                ELSE IF hist.outcome = "none" THEN i - 1 ELSE i
        /\ processed_count + skipped_count + error_count <= n
        /\ (~hist.interrupted =>
              processed_count + skipped_count + error_count = n)

\* C11 witness: the loop was interrupted in the middle of the second item,
\* after the first one was counted.
C11_Witness ==
    /\ pc = "done"
    /\ hist.interrupted
    /\ i = 2
    /\ hist.outcome = "none"
    /\ processed_count + skipped_count + error_count = 1

\* C12: a run with skip_existing set, no caption file present before it and
\* no failing step ends with every discovered image processed, none skipped
\* and none in error, whatever the file names are (names that differ only
\* in their extension included).
C12_FreshBatchAllProcessed ==
    (LoopCompleted /\ skip_existing /\ hist.fresh /\ hist.raisedCount = 0)
        => /\ processed_count = n
           /\ skipped_count = 0
           /\ error_count = 0

\* C13: with the timer at its deadline as soon as it is started (timeout 0;
\* TimerExpire is then the Timer thread being scheduled, which no step of
\* the foreground thread waits for), once the first item has succeeded the
\* model is unloaded before the second item begins, and the second item's
\* load_model constructs the model anew.
C13_ZeroTimeoutReloads ==
    /\ (i = 2 /\ pc = "check" /\ hist.nSuccess = 1 => model = "None")
    /\ (i = 2 /\ pc = "reset" /\ hist.nSuccess = 1 => hist.built)

\* C14: when an item is recorded as Success its caption file holds exactly
\* the trigger word, ", " and the text generate_caption returned for it, or
\* exactly that text when there is no trigger word.
C14_PersistedContent ==
    (pc = "count" \/ (pc = "for" /\ hist.outcome = "Success"))
        => files[caption_file(i)] =
              [exists  |-> TRUE,
               content |-> IF trigger_word # ""
                           THEN <<trigger_word, ", ">> \o hist.raw
                           ELSE hist.raw]

\* C14 witness: an item was recorded as Success with a trigger word and its
\* file holds the three parts.
C14_Witness ==
    /\ pc = "for"
    /\ hist.outcome = "Success"
    /\ trigger_word = "sks"
    /\ hist.raw # << >>
    /\ files[caption_file(i)].content = <<"sks", ", ", hist.raw[1]>>

\* C15: the lock is not held by the foreground thread between the return of
\* load_model and the end of inference, so a timer thread can unload the
\* model in that window; from then on the handle is absent for the rest of
\* the call and the item is never recorded as Success.
C15_EvictionDuringCall ==
    /\ (pc \in InCall => lock # FG)
    /\ (hist.evictedInCall =>
          /\ pc \in InCall => model = "None" /\ processor = "None"
          /\ pc \notin {"write", "count"}
          /\ hist.outcome # "Success")

\* C15 witness: the model was unloaded after load_model had returned for
\* the item and the item was recorded as Error.
C15_Witness ==
    /\ hist.evictedInCall
    /\ hist.resets = 1
    /\ ~hist.loadRaised
    /\ hist.outcome = "Error"

C17_UnloadIdempotent ==
    /\ [](pc = "fin_cancel" => model = "None" /\ processor = "None")
    /\ [][ /\ (pc = "fin_lock" /\ pc' = "fin_cancel"
                 => model = "None" /\ UNCHANGED manager)
           /\ (\A t \in TimerIds :
                 timers[t].st = "fire" /\ timers'[t].st = "done"
                    => model = "None"
                       /\ UNCHANGED <<model, processor, lock, timer>>) ]_vars

\* C18: at most one timer is armed (started, not cancelled, deadline not
\* reached), and it is the one in the manager's slot.
C18_SingleSlot ==
    /\ Cardinality({t \in TimerIds : Pending(t)}) <= 1
    /\ \A t \in TimerIds : Pending(t) => t = timer

\* C18 witness: two timers were started; the first is no longer armed, the
\* second is.
C18_Witness ==
    /\ Len(timers) = 2
    /\ timer = 2
    /\ Pending(2)
    /\ ~Pending(1)

\* C19: the caption file of an item that was recorded Skipped, or Error
\* because the image open, the model load or the inference failed, has
\* after the run the state it had when the item was visited.
C19_UnwrittenItemsKeepFile ==
    pc = "done" =>
        \A s \in Stems : hist.frozen[s].set => files[s] = hist.frozen[s].file

\* C20: under fair scheduling process_images ends, so no wait of the
\* foreground thread for the manager's lock lasts forever; a run whose loop
\* was not interrupted ends with every discovered item visited and given
\* one outcome and the finally block entered, and, unless the cleanup
\* itself raised, unload_model was called and the timer cancellation
\* reached.
C20_TerminatesWithCleanup ==
    /\ <>(pc = "done")
    /\ [](pc = "done" /\ image_files # << >> =>
            /\ hist.finallyRuns = 1 \/ hist.interrupted
            /\ ~hist.interrupted =>
                  /\ i = n
                  /\ hist.outcome # "none"
                  /\ hist.nSuccess + hist.nSkipped + hist.nError = n
                  /\ hist.finallyRuns = 1
            /\ ~hist.cleanupRaised =>
                  hist.unloadCalls = 1 /\ hist.cancelRuns = 1)

\* C20 witness: after the last item the foreground thread is at the lock of
\* the cleanup's unload_model while a timer thread holds it for its unload.
C20_Witness ==
    /\ pc = "fin_lock"
    /\ ~hist.interrupted
    /\ i = n
    /\ lock \in TimerIds
    /\ timers[lock].st = "locked"

====
